---------------------------- MODULE Spec2Model ----------------------------
(***************************************************************************)
(* Model of the Eldrix telephony/SMS webhook server (src/src/server.ts).   *)
(*                                                                         *)
(* The relational store (HelpSession, Message, StripeUsage, FreeTrial),    *)
(* the billing meter and the clock are the state.  A webhook handler is an *)
(* async function: it gives up control at every awaited query, and other   *)
(* handlers and the external system run in between.  A handler run is a    *)
(* record in inflight, and every awaited read or write of a table is one   *)
(* step of the run; the helper functions of server.ts are operators.       *)
(* Time is counted in hours.  A handler runs either with every store /     *)
(* provider call succeeding (fault "none") or with the call at one named   *)
(* site failing.                                                           *)
(***************************************************************************)
EXTENDS Integers, Sequences, FiniteSets, TLC

VARIABLES
    now,         \* the clock, in hours
    sessions,    \* "HelpSession" table: sequence of rows, id = index
    messages,    \* "Message" table: sequence of rows
    usage,       \* "StripeUsage" table: sequence of rows
    trials,      \* "FreeTrial" table: sequence of rows
    meter,       \* meter events accepted by the billing provider
    env,         \* "reliable": no call fails; "faulty": one call may still fail
    focus,       \* the contact whose events this run follows
    inflight,    \* the handler runs: where each one stands, and what it holds
    last         \* the most recent event: a handler's answer, a completion, a tick

vars == <<now, sessions, messages, usage, trials, meter, env, focus, inflight, last>>

-----------------------------------------------------------------------------
(* Bounds of the model *)

MaxElapsed == 25        \* hours the clock may advance during one run
MaxHandlers == 2        \* handler runs of one run of the system
MaxPhoneLen == 4        \* characters of a raw phone string
MonthDays == 30         \* length of a month of the model, in days

(* Program constants *)

FreeSessionLimit == 3   \* free sessions per month
ThrottleHours == 24     \* pay-as-you-go: hours a session blocks a new one
DayHours == 24          \* a calendar date: the first day of a month is a date

MonthHours == MonthDays * DayHours

StartTime == MonthHours + 280   \* the run starts inside the second month window
NULL == "NULL"
NoSession == 0

-----------------------------------------------------------------------------
(* Phone numbers are sequences of one-character strings. *)

DigitChars == {"0", "1", "2", "3", "4", "5", "6", "7", "8", "9"}

\* phone.replace(/\D/g, "").replace(/^1/, "")
cleanPhoneNumber(phone) ==
    LET digits == SelectSeq(phone, LAMBDA c : c \in DigitChars)
    IN  IF Len(digits) > 0 /\ digits[1] = "1" THEN Tail(digits) ELSE digits

\* column LIKE '%needle%' (the needle holds digits only)
Like(hay, needle) ==
    \E i \in 0..(Len(hay) - Len(needle)) :
        SubSeq(hay, i + 1, i + Len(needle)) = needle

-----------------------------------------------------------------------------
(* The "User" table: owned by the account system, read-only here.        *)
(* An empty string is a missing (null) column.                            *)

UserRows ==
    << [id |-> "uFree", name |-> "Fay", phone |-> <<"2", "0", "1">>,
        stripeSubscriptionId |-> "", stripeUsageId |-> "", stripeCustomerId |-> ""],
       [id |-> "uPayg", name |-> "Pat", phone |-> <<"2", "0", "2">>,
        stripeSubscriptionId |-> "", stripeUsageId |-> "mtr_P", stripeCustomerId |-> "cus_P"],
       [id |-> "uSub", name |-> "Sam", phone |-> <<"2", "0", "3">>,
        stripeSubscriptionId |-> "sub_S", stripeUsageId |-> "", stripeCustomerId |-> "cus_S"],
       [id |-> "uBoth", name |-> "Bo", phone |-> <<"2", "0", "4">>,
        stripeSubscriptionId |-> "sub_B", stripeUsageId |-> "mtr_B", stripeCustomerId |-> "cus_B"] >>

UserIds == {UserRows[i].id : i \in DOMAIN UserRows}
NoUser == [id |-> "", name |-> "", phone |-> <<>>,
           stripeSubscriptionId |-> "", stripeUsageId |-> "", stripeCustomerId |-> ""]

UserById(userId) ==
    {UserRows[i] : i \in {j \in DOMAIN UserRows : UserRows[j].id = userId}}

\* The raw From values of inbound events.
FreeContact == <<"+", "1", "2", "0", "1">>
PaygContact == <<"+", "1", "2", "0", "2">>
SubContact == <<"+", "1", "2", "0", "3">>
BothContact == <<"+", "1", "2", "0", "4">>
NewContact == <<"+", "1", "9", "0", "9">>
Contacts == {FreeContact, PaygContact, SubContact, BothContact, NewContact}

\* A request that carries the From field twice: the body parser gives an
\* array, and phone.replace of cleanPhoneNumber throws a TypeError.
RepeatedFrom == <<"From", "From">>
Throws(from) == from = RepeatedFrom

Bodies == {"help"}
AdminReplyText == "reply"

ADMIN_PHONE == <<"+", "1", "7", "0", "0">>
FORWARD_NUMBER == ADMIN_PHONE
Stranger == <<"+", "1", "6", "6", "6">>

ActiveStatuses == {"pending", "active", "ongoing", "open"}

-----------------------------------------------------------------------------
(* Fault sites: the call whose failure a handler run suffers.             *)

FaultSites ==
    { "findUser",        \* findUserByPhone's query
      "planQuery",       \* getUserSubscriptionInfo's query, handler's call
      "countQuery",      \* countUserSessions' query, handler's call
      "sessionSelect",   \* the open-session lookup
      "recentSelect",    \* the pay-as-you-go 24 hour lookup
      "typeUpdate",      \* the UPDATE that switches the session type
      "planQueryCreate", \* getUserSubscriptionInfo inside createHelpSession
      "sessionInsert",   \* the INSERT of createHelpSession
      "planQueryReport", \* getUserSubscriptionInfo inside reportStripeUsage
      "countQueryReport",\* countUserSessions inside reportStripeUsage
      "meterCall",       \* the billing provider's meter-event call
      "usageInsert",     \* the INSERT into StripeUsage
      "messageInsert",   \* the INSERT of createMessage
      "messageUpdate",   \* the UPDATE of createMessage
      "trialSelect",     \* hasUsedFreeTrial's query
      "trialInsert",     \* recordFreeTrial's INSERT
      "sendContact",     \* a message to the contact is rejected
      "sendAdmin",       \* a message to the admin is rejected
      "throwRespond",    \* the first statement that sends the response throws
      "throwTwice",      \* ... and the voice fallback throws as well
      "download",        \* the recording download fails or times out
      "upload" }         \* the upload to object storage fails

\* The sites a handler passes through.
VoiceSites ==
    { "findUser", "planQuery", "countQuery", "sessionSelect", "recentSelect",
      "planQueryCreate", "sessionInsert", "planQueryReport", "countQueryReport",
      "meterCall", "usageInsert", "trialSelect", "trialInsert", "sendContact",
      "sendAdmin", "throwRespond", "throwTwice" }
SmsSites ==
    { "findUser", "planQuery", "countQuery", "sessionSelect", "recentSelect",
      "typeUpdate", "planQueryCreate", "sessionInsert", "planQueryReport",
      "countQueryReport", "meterCall", "usageInsert", "messageInsert",
      "messageUpdate", "trialSelect", "trialInsert", "sendContact", "sendAdmin",
      "throwRespond" }
ReplySites ==
    { "findUser", "sessionSelect", "typeUpdate", "planQueryCreate", "sessionInsert",
      "planQueryReport", "countQueryReport", "meterCall", "usageInsert",
      "messageInsert", "messageUpdate", "sendContact" }
MenuSites == {"findUser", "planQuery", "countQuery"}
TrialSites == {"trialSelect", "trialInsert", "sendAdmin"}
NoAnswerSites == {"sendContact", "sendAdmin"}
RecordingSites ==
    { "findUser", "planQuery", "sessionSelect", "messageInsert", "messageUpdate",
      "sendAdmin", "download", "upload" }
RespondSites == {"findUser", "planQuery", "sendContact"}

\* the faults a handler run may suffer in environment e
Faults(e, sites) == IF e = "faulty" THEN sites \cup {"none"} ELSE {"none"}

-----------------------------------------------------------------------------
(* Helper functions of server.ts.  db is the record of the tables and the *)
(* billing meter; t is the clock; f is the failing site.                  *)

Max(a, b) == IF a >= b THEN a ELSE b

\* rows[0] of 'SELECT * FROM "User" WHERE phone LIKE %cleaned%': the query
\* has no ORDER BY, so any matching row may come first.  A failing query
\* and an empty result both give null.  (When cleanPhoneNumber throws no
\* user is found either: the caller's catch takes over.)
findUserByPhone(phone, f) ==
    LET cleanedPhone == cleanPhoneNumber(phone)
        rows == {i \in DOMAIN UserRows : Like(UserRows[i].phone, cleanedPhone)}
    IN  IF Throws(phone) \/ f = "findUser" \/ rows = {}
        THEN {NoUser}
        ELSE {UserRows[i] : i \in rows}

\* new Date(now.getFullYear(), now.getMonth(), 1): the clock is UTC (the
\* server is deployed as serverless functions, which run in UTC)
MonthStart(t) == (t \div MonthHours) * MonthHours

\* date.toISOString().slice(0, 10): the date of the instant, compared by the
\* query as the start of that day
ISODate(t) == (t \div DayHours) * DayHours

\* Variant: the query has no "completed = true", open sessions count too.
countUserSessionsOpenToo(db, userId, t, fail) ==
    IF fail
    THEN 0
    ELSE Cardinality({i \in DOMAIN db.sessions :
            /\ db.sessions[i].userId = userId
            /\ db.sessions[i].createdAt >= ISODate(MonthStart(t))
            /\ db.sessions[i].createdAt < ISODate(MonthStart(t) + MonthHours)})

\* completed sessions of the user created in [first of month, first of next)
countUserSessions(db, userId, t, fail) ==
    IF fail
    THEN 0
    ELSE Cardinality({i \in DOMAIN db.sessions :
            /\ db.sessions[i].userId = userId
            /\ db.sessions[i].createdAt >= ISODate(MonthStart(t))
            /\ db.sessions[i].createdAt < ISODate(MonthStart(t) + MonthHours)
            /\ db.sessions[i].completed})

FreeDefault ==
    [subscriptionType |-> "free", sessionLimit |-> FreeSessionLimit,
     hasUnlimitedSessions |-> FALSE, freeSessionsRemaining |-> FreeSessionLimit]

\* Variant: the monthly count is never applied, every free user keeps three
\* sessions.
getUserSubscriptionInfoUncounted(db, userId, t, planFail, countFail) ==
    LET userRows == UserById(userId)
    IN  IF planFail \/ userRows = {}
        THEN FreeDefault
        ELSE LET userData == CHOOSE r \in userRows : TRUE
             IN  IF userData.stripeSubscriptionId # ""
                 THEN [subscriptionType |-> "subscription", sessionLimit |-> -1,
                       hasUnlimitedSessions |-> TRUE, freeSessionsRemaining |-> -1]
                 ELSE IF userData.stripeUsageId # ""
                 THEN [subscriptionType |-> "pay-as-you-go", sessionLimit |-> -1,
                       hasUnlimitedSessions |-> TRUE,
                       freeSessionsRemaining |-> FreeSessionLimit]
                 ELSE FreeDefault

\* Variant: a failing plan query fails open, as an unlimited subscription.
getUserSubscriptionInfoFailOpen(db, userId, t, planFail, countFail) ==
    LET userRows == UserById(userId)
        sessionCount == countUserSessions(db, userId, t, countFail)
    IN  IF planFail
        THEN [subscriptionType |-> "subscription", sessionLimit |-> -1,
              hasUnlimitedSessions |-> TRUE, freeSessionsRemaining |-> -1]
        ELSE IF userRows = {}
        THEN FreeDefault
        ELSE LET userData == CHOOSE r \in userRows : TRUE
             IN  IF userData.stripeSubscriptionId # ""
                 THEN [subscriptionType |-> "subscription", sessionLimit |-> -1,
                       hasUnlimitedSessions |-> TRUE, freeSessionsRemaining |-> -1]
                 ELSE IF userData.stripeUsageId # ""
                 THEN [subscriptionType |-> "pay-as-you-go", sessionLimit |-> -1,
                       hasUnlimitedSessions |-> TRUE,
                       freeSessionsRemaining |-> Max(0, FreeSessionLimit - sessionCount)]
                 ELSE [subscriptionType |-> "free", sessionLimit |-> FreeSessionLimit,
                       hasUnlimitedSessions |-> FALSE,
                       freeSessionsRemaining |-> Max(0, FreeSessionLimit - sessionCount)]

\* Variant: the subscription id is not looked at, a subscriber is resolved
\* from the usage id and the monthly count like everybody else.
getUserSubscriptionInfoNoSubscription(db, userId, t, planFail, countFail) ==
    LET userRows == UserById(userId)
    IN  IF planFail \/ userRows = {}
        THEN FreeDefault
        ELSE LET userData == CHOOSE r \in userRows : TRUE
                 sessionCount == countUserSessions(db, userId, t, countFail)
             IN  IF userData.stripeUsageId # ""
                 THEN [subscriptionType |-> "pay-as-you-go", sessionLimit |-> -1,
                       hasUnlimitedSessions |-> TRUE,
                       freeSessionsRemaining |-> Max(0, FreeSessionLimit - sessionCount)]
                 ELSE [subscriptionType |-> "free", sessionLimit |-> FreeSessionLimit,
                       hasUnlimitedSessions |-> FALSE,
                       freeSessionsRemaining |-> Max(0, FreeSessionLimit - sessionCount)]

\* Variant: the usage id is tested before the subscription id.
getUserSubscriptionInfoUsageFirst(db, userId, t, planFail, countFail) ==
    LET userRows == UserById(userId)
    IN  IF planFail \/ userRows = {}
        THEN FreeDefault
        ELSE LET userData == CHOOSE r \in userRows : TRUE
                 sessionCount == countUserSessions(db, userId, t, countFail)
             IN  IF userData.stripeUsageId # ""
                 THEN [subscriptionType |-> "pay-as-you-go", sessionLimit |-> -1,
                       hasUnlimitedSessions |-> TRUE,
                       freeSessionsRemaining |-> Max(0, FreeSessionLimit - sessionCount)]
                 ELSE IF userData.stripeSubscriptionId # ""
                 THEN [subscriptionType |-> "subscription", sessionLimit |-> -1,
                       hasUnlimitedSessions |-> TRUE, freeSessionsRemaining |-> -1]
                 ELSE [subscriptionType |-> "free", sessionLimit |-> FreeSessionLimit,
                       hasUnlimitedSessions |-> FALSE,
                       freeSessionsRemaining |-> Max(0, FreeSessionLimit - sessionCount)]

getUserSubscriptionInfo(db, userId, t, planFail, countFail) ==
    LET userRows == UserById(userId)
    IN  IF planFail \/ userRows = {}
        THEN FreeDefault
        ELSE LET userData == CHOOSE r \in userRows : TRUE
                 sessionCount == countUserSessions(db, userId, t, countFail)
             IN  IF userData.stripeSubscriptionId # ""
                 THEN [subscriptionType |-> "subscription", sessionLimit |-> -1,
                       hasUnlimitedSessions |-> TRUE, freeSessionsRemaining |-> -1]
                 ELSE IF userData.stripeUsageId # ""
                 THEN [subscriptionType |-> "pay-as-you-go", sessionLimit |-> -1,
                       hasUnlimitedSessions |-> TRUE,
                       freeSessionsRemaining |-> Max(0, FreeSessionLimit - sessionCount)]
                 ELSE [subscriptionType |-> "free", sessionLimit |-> FreeSessionLimit,
                       hasUnlimitedSessions |-> FALSE,
                       freeSessionsRemaining |-> Max(0, FreeSessionLimit - sessionCount)]

\* 'SELECT * FROM "FreeTrial" WHERE phone LIKE %cleaned%'; an error gives false
hasUsedFreeTrial(db, phone, f) ==
    IF f = "trialSelect"
    THEN FALSE
    ELSE \E i \in DOMAIN db.trials : Like(db.trials[i].phone, cleanPhoneNumber(phone))

\* Variant: the INSERT has no ON CONFLICT clause and the column no unique
\* index.
recordFreeTrialNoConflict(db, phone, f) ==
    IF f = "trialInsert"
    THEN db
    ELSE [db EXCEPT !.trials = Append(@, [phone |-> cleanPhoneNumber(phone)])]

\* 'INSERT INTO "FreeTrial" (phone) ... ON CONFLICT (phone) DO NOTHING': no
\* row is added when a row with the same phone exists
recordFreeTrial(db, phone, f) ==
    LET cleanedPhone == cleanPhoneNumber(phone)
    IN  IF f = "trialInsert" \/ \E i \in DOMAIN db.trials : db.trials[i].phone = cleanedPhone
        THEN db
        ELSE [db EXCEPT !.trials = Append(@, [phone |-> cleanedPhone])]

\* 'INSERT INTO "StripeUsage" ... ON CONFLICT ("stripeUsageId") DO NOTHING':
\* the row is dropped when a row with the same stripeUsageId exists.
insertUsage(rows, row, f) ==
    IF f = "usageInsert" \/ \E i \in DOMAIN rows : rows[i].stripeUsageId = row.stripeUsageId
    THEN rows
    ELSE Append(rows, row)

\* Variant: every session of a pay-as-you-go user is billed, the free
\* sessions are not looked at.
reportStripeUsageAlways(db, userId, t, f) ==
    LET subscriptionInfo ==
            getUserSubscriptionInfo(db, userId, t, f = "planQueryReport", f = "countQueryReport")
        userRows == UserById(userId)
    IN  /\ subscriptionInfo.subscriptionType = "pay-as-you-go"
        /\ userRows # {}
        /\ \A userData \in userRows :
               userData.stripeUsageId # "" /\ userData.stripeCustomerId # ""

\* reportStripeUsage up to its meter call: TRUE when the function goes on to
\* report usage (pay-as-you-go, no free session of the month left, a usage
\* id and a customer id in the User row)
reportStripeUsage(db, userId, t, f) ==
    LET subscriptionInfo ==
            getUserSubscriptionInfo(db, userId, t, f = "planQueryReport", f = "countQueryReport")
        userRows == UserById(userId)
    IN  /\ subscriptionInfo.subscriptionType = "pay-as-you-go"
        /\ ~(subscriptionInfo.freeSessionsRemaining > 0)
        /\ userRows # {}
        /\ \A userData \in userRows :
               userData.stripeUsageId # "" /\ userData.stripeCustomerId # ""

\* the meter event of reportStripeUsage: payload[stripe_customer_id]
meterEvent(userId) == (CHOOSE r \in UserById(userId) : TRUE).stripeCustomerId

\* the StripeUsage row of reportStripeUsage
usageRow(userId, sessionId) ==
    LET userData == CHOOSE r \in UserById(userId) : TRUE
    IN  [userId |-> userId, stripeUsageId |-> userData.stripeUsageId,
         stripeCustomerId |-> userData.stripeCustomerId,
         sessionId |-> sessionId, status |-> "pending"]

PriorityOf(subscriptionType) ==
    IF subscriptionType = "subscription" THEN "high"
    ELSE IF subscriptionType = "pay-as-you-go" THEN "medium"
    ELSE "low"

\* the row createHelpSession inserts: the priority comes from the plan
helpSessionRow(db, userId, callType, initialMessage, t, f) ==
    LET subscriptionInfo ==
            getUserSubscriptionInfo(db, userId, t, f = "planQueryCreate", FALSE)
    IN  [userId |-> userId, type |-> callType, status |-> "ongoing",
         completed |-> FALSE,
         priority |-> PriorityOf(subscriptionInfo.subscriptionType),
         createdAt |-> t, updatedAt |-> t,
         lastMessage |-> IF initialMessage = "" THEN NULL ELSE initialMessage]

\* Variant: the INSERT is refused when the user has a non-completed session
\* (a unique index on the open sessions of a user).
insertHelpSessionOneOpen(db, row, f) ==
    IF \/ f = "sessionInsert"
       \/ \E i \in DOMAIN db.sessions :
              db.sessions[i].userId = row.userId /\ ~db.sessions[i].completed
    THEN db
    ELSE [db EXCEPT !.sessions = Append(@, row)]

\* 'INSERT INTO "HelpSession" ...' of createHelpSession: the table has no
\* constraint on the open sessions of a user; the id of the new row is its
\* index
insertHelpSession(db, row, f) ==
    IF f = "sessionInsert"
    THEN db
    ELSE [db EXCEPT !.sessions = Append(@, row)]

\* 'UPDATE "HelpSession" SET type = 'sms', "updatedAt" = $1 WHERE id = $2'
updateSessionType(db, helpSessionId, t) ==
    [db EXCEPT !.sessions[helpSessionId].type = "sms",
               !.sessions[helpSessionId].updatedAt = t]

\* the row createMessage inserts
messageRow(helpSessionId, content, isAdmin) ==
    [helpSessionId |-> helpSessionId, content |-> content, isAdmin |-> isAdmin]

\* 'UPDATE "HelpSession" SET "lastMessage" = $1, "updatedAt" = $2 WHERE id = $3'
updateLastMessage(db, helpSessionId, content, t) ==
    [db EXCEPT !.sessions[helpSessionId].lastMessage = content,
               !.sessions[helpSessionId].updatedAt = t]

\* Variant: the status filter keeps the status "open" only.
openSessionLookupOpenOnly(db, userId) ==
    LET open == {i \in DOMAIN db.sessions :
                    db.sessions[i].userId = userId /\ ~db.sessions[i].completed}
        newest == {i \in open : \A j \in open :
                    db.sessions[j].createdAt <= db.sessions[i].createdAt}
    IN  IF newest = {} THEN {NoSession}
        ELSE {IF db.sessions[i].status = "open" THEN i ELSE NoSession : i \in newest}

\* 'SELECT * FROM "HelpSession" WHERE "userId" = $1 AND completed = false
\*  ORDER BY "createdAt" DESC LIMIT 1', then the filter on the status: the
\* ids the handler may end up with (none, or one of the newest open rows).
openSessionLookup(db, userId) ==
    LET open == {i \in DOMAIN db.sessions :
                    db.sessions[i].userId = userId /\ ~db.sessions[i].completed}
        newest == {i \in open : \A j \in open :
                    db.sessions[j].createdAt <= db.sessions[i].createdAt}
        incomplete == {i \in newest : db.sessions[i].status \in ActiveStatuses}
    IN  IF newest = {} THEN {NoSession}
        ELSE {IF i \in incomplete THEN i ELSE NoSession : i \in newest}

\* Variant: the window is two days long.
hasRecentSessionTwoDays(db, userId, t) ==
    \E i \in DOMAIN db.sessions :
        db.sessions[i].userId = userId /\ db.sessions[i].createdAt > t - 2 * ThrottleHours

\* 'SELECT * FROM "HelpSession" WHERE "userId" = $1 AND "createdAt" > $2',
\* $2 = now - 24 h
hasRecentSession(db, userId, t) ==
    \E i \in DOMAIN db.sessions :
        db.sessions[i].userId = userId /\ db.sessions[i].createdAt > t - ThrottleHours

-----------------------------------------------------------------------------
(* Outbound messages.  client.messages.create is awaited: the first       *)
(* rejected message throws, and the sends after it are not made.          *)

Msg(to, tag) == [to |-> to, tag |-> tag]

Rejected(m, f) ==
    \/ f = "sendContact" /\ m.to = "contact"
    \/ f = "sendAdmin" /\ m.to = "admin"

Threw(ms, f) == \E i \in DOMAIN ms : Rejected(ms[i], f)

Delivered(ms, f) ==
    IF Threw(ms, f)
    THEN SubSeq(ms, 1, (CHOOSE i \in DOMAIN ms :
                          Rejected(ms[i], f) /\ \A j \in 1..(i - 1) : ~Rejected(ms[j], f)) - 1)
    ELSE ms

\* sendSmsNotification: catches the rejection and returns false
sendSmsNotification(tag, f) ==
    IF f = "sendAdmin" THEN <<>> ELSE <<Msg("admin", tag)>>

NoInfo ==
    [subscriptionType |-> "none", sessionLimit |-> 0,
     hasUnlimitedSessions |-> FALSE, freeSessionsRemaining |-> 0]

\* What a handler run did: the decision path it took, the number of HTTP
\* responses it sent, whether the voice response dials FORWARD_NUMBER, the
\* whisper type, the messages sent, the entitlement resolved, the session used.
Result(path, responses, dialed, whisper, outbox, info, sid, isNew) ==
    [path |-> path, responses |-> responses, dialed |-> dialed, whisper |-> whisper,
     outbox |-> outbox, info |-> info, sid |-> sid, isNew |-> isNew]

Dial(whisper, info, sid, isNew) ==
    Result("dial", 1, TRUE, whisper, <<>>, info, sid, isNew)

-----------------------------------------------------------------------------
(* Handler runs.  A run is a record: pc is the awaited call it is about to *)
(* make ("respond": it has made its table calls and sends its messages and *)
(* its response), the other fields are the local variables of the handler. *)
(*   branch   the outcome the handler has decided on                       *)
(*   sid      helpSessionId / existingSessionId, isNew  isNewSession       *)
(*   writes   the statements of the run that changed a table, in order     *)
(*   alone    no other handler and no completion has stepped since the     *)
(*            request arrived; before: the tables at the arrival, kept     *)
(*            while the run is alone                                       *)

NoTables ==
    [sessions |-> <<>>, messages |-> <<>>, usage |-> <<>>, trials |-> <<>>, meter |-> <<>>]

Idle == [pc |-> "idle"]

Fresh(kind, from, f, db) ==
    [pc |-> "respond", kind |-> kind, from |-> from, fault |-> f, target |-> from,
     content |-> "", isAdmin |-> FALSE, user |-> NoUser, info |-> NoInfo,
     sid |-> NoSession, isNew |-> FALSE, branch |-> "", writes |-> <<>>,
     alone |-> TRUE, before |-> db]

\* the run goes on with the call at site pc
Goto(run, pc) == [run EXCEPT !.pc = pc]

\* the run has decided on its outcome and goes on to send it
Decide(run, branch) == [run EXCEPT !.pc = "respond", !.branch = branch]

\* the run has changed a table with the statement at site
Wrote(run, site) == [run EXCEPT !.writes = Append(@, site)]

\* Variant: a FreeTrial row for the number takes the contact to the trial
\* branch even when a User row was found.
isRegisteredUnlessTrial(db, from, user) ==
    user # NoUser /\ ~hasUsedFreeTrial(db, from, "none")

\* if (user): the registered branch is taken exactly when findUserByPhone
\* gave a row
isRegistered(db, from, user) == user # NoUser

\* the branch of an unregistered contact, from hasUsedFreeTrial to the call
\* of recordFreeTrial: used is the outcome when a row was found, granted the
\* outcome after the row is recorded
trialBranch(db, run, used, granted) ==
    IF hasUsedFreeTrial(db, run.from, run.fault)
    THEN Decide(run, used)
    ELSE Goto([run EXCEPT !.branch = granted], "trialInsert")

\* a free-plan user with no session of the month left
reachedSessionLimit(subscriptionInfo) ==
    /\ subscriptionInfo.subscriptionType = "free"
    /\ subscriptionInfo.freeSessionsRemaining <= 0

-----------------------------------------------------------------------------
(* POST /twilio/voice, digits === "2": the run from the request to the     *)
(* answer of its first table query.  user is the row findUserByPhone gave. *)

voicePress2(db, from, t, f, user) ==
    LET run == Fresh("voice", from, f, db)
        subscriptionInfo ==
            getUserSubscriptionInfo(db, user.id, t, f = "planQuery", f = "countQuery")
    IN  IF Throws(from)
        THEN \* findUserByPhone throws: the catch forwards the call
             Decide(run, "thrown")
        ELSE IF ~isRegistered(db, from, user)
        THEN trialBranch(db, run, "returning", "freetrial")
        ELSE IF reachedSessionLimit(subscriptionInfo)
        THEN Decide([run EXCEPT !.user = user, !.info = subscriptionInfo], "sessionLimit")
        ELSE [run EXCEPT !.user = user, !.info = subscriptionInfo,
                         !.pc = "sessionSelect", !.branch = "dial"]

\* the response of the voice handler and the messages it sends on the way;
\* dialed: the response holds a Dial to FORWARD_NUMBER
voiceAnswer(run) ==
    LET f == run.fault
        \* the catch adds a Dial to FORWARD_NUMBER to the response the try
        \* block has built and sends it; when that throws as well, its own
        \* catch adds Say and Hangup to the same response and sends it
        caught(built) ==
            [built EXCEPT !.path = IF f = "throwTwice" THEN "technicalError"
                                   ELSE "fallbackDial",
                          !.dialed = TRUE]
        \* Say and Hangup, or nothing yet: no Dial, no whisper
        plain(info) == Result("", 1, FALSE, "", <<>>, info, NoSession, FALSE)
        dial == IF run.branch \in {"freetrial", "returning"}
                THEN Dial(run.branch, NoInfo, NoSession, FALSE)
                ELSE \* a found or a new session, or none: the "wait 24 hours"
                     \* message or a query threw into catch (createError)
                     Dial("customer", run.info, run.sid, run.isNew)
    IN  IF run.branch = "thrown"
        THEN caught(plain(NoInfo))
        ELSE IF run.branch = "sessionLimit"
        THEN \* say "used all 3", hang up, respond, notify the admin, return;
             \* when the response throws the admin is not notified
             IF f \in {"throwRespond", "throwTwice"}
             THEN caught(plain(run.info))
             ELSE Result("sessionLimit", 1, FALSE, "",
                         sendSmsNotification("deniedSessionLimit", f), run.info,
                         NoSession, FALSE)
        ELSE IF run.branch = "throttled" /\ f # "sendContact"
        THEN \* message the caller, notify the admin, return: no response is sent
             Result("throttled", 0, FALSE, "",
                    <<Msg("contact", "wait24h")>>
                        \o sendSmsNotification("deniedRecentSession", f),
                    run.info, NoSession, FALSE)
        ELSE IF f \in {"throwRespond", "throwTwice"}
        THEN \* the response sent by the catch still holds the Dial of the try
             \* block, with its whisper
             caught(dial)
        ELSE dial

-----------------------------------------------------------------------------
(* POST /twilio/sms.                                                       *)

smsInbound(db, from, body, t, f, user) ==
    LET run == [Fresh("sms", from, f, db) EXCEPT !.content = body]
        subscriptionInfo ==
            getUserSubscriptionInfo(db, user.id, t, f = "planQuery", f = "countQuery")
    IN  IF Throws(from)
        THEN Decide(run, "thrown")
        ELSE IF ~isRegistered(db, from, user)
        THEN trialBranch(db, run, "trialUsed", "freeTrial")
        ELSE IF reachedSessionLimit(subscriptionInfo)
        THEN Decide([run EXCEPT !.user = user, !.info = subscriptionInfo], "sessionLimit")
        ELSE \* let isNewSession = true
             [run EXCEPT !.user = user, !.info = subscriptionInfo, !.isNew = TRUE,
                         !.pc = "sessionSelect", !.branch = "forward"]

\* the messages of the forwarding step: the admin's copy, then the
\* confirmation to the contact for a new session only
smsForward(isNew) ==
    IF isNew
    THEN <<Msg("admin", "forwardNew"), Msg("contact", "confirmation")>>
    ELSE <<Msg("admin", "forwardOngoing")>>

\* the messages of an SMS run and its one empty TwiML response, from the
\* try block or from the outer catch
smsAnswer(run) ==
    LET f == run.fault
        limit == <<Msg("contact", "sessionLimit"), Msg("admin", "deniedSessionLimit")>>
        used == <<Msg("contact", "trialUsed"), Msg("admin", "deniedTrialUsed")>>
        trial == <<Msg("admin", "forwardFreeTrial"), Msg("contact", "trialConfirmation")>>
        throttle == <<Msg("contact", "wait24h"), Msg("admin", "deniedRecentSession")>>
        \* the messages of a branch, then 'res.type("text/xml").send' at the
        \* end of the try block; a throw of either reaches the outer catch
        ended(path, ms, info) ==
            Result(IF Threw(ms, f) \/ f = "throwRespond" THEN "error" ELSE path,
                   1, FALSE, "", Delivered(ms, f), info, NoSession, FALSE)
        \* the forwarding step after the inner try block, sent the messages
        \* of that block; early: the block's own response threw
        forward(sent, early) ==
            Result(IF Threw(smsForward(run.isNew), f) \/ (f = "throwRespond" /\ ~early)
                   THEN "error" ELSE "forwarded",
                   1, FALSE, "", sent \o Delivered(smsForward(run.isNew), f),
                   run.info, run.sid, run.isNew)
    IN  IF run.branch = "thrown"
        THEN Result("error", 1, FALSE, "", <<>>, NoInfo, NoSession, FALSE)
        ELSE IF run.branch = "trialUsed" THEN ended("trialUsed", used, NoInfo)
        ELSE IF run.branch = "freeTrial" THEN ended("freeTrial", trial, NoInfo)
        ELSE IF run.branch = "sessionLimit" THEN ended("sessionLimit", limit, run.info)
        ELSE IF run.branch = "throttled"
        THEN \* a rejected message, or a throw of the block's own response,
             \* reaches the inner catch and the handler goes on to forward;
             \* otherwise it has responded and returns
             IF Threw(throttle, f) THEN forward(Delivered(throttle, f), FALSE)
             ELSE IF f = "throwRespond" THEN forward(throttle, TRUE)
             ELSE Result("throttled", 1, FALSE, "", throttle, run.info, NoSession, FALSE)
        ELSE forward(<<>>, FALSE)

-----------------------------------------------------------------------------
(* POST /twilio/sms-reply: the admin's reply to a contact.                 *)
(* target is the number the reply goes to: the To field, or the number     *)
(* the body starts with; text is the rest of the body.                     *)

\* Variant: the sender of a reply is not verified.
isAdminNumberAnyone(adminNumber) == TRUE

\* the sender is the admin number or the forward number
isAdminNumber(adminNumber) ==
    adminNumber = ADMIN_PHONE \/ adminNumber = FORWARD_NUMBER

smsReply(db, adminNumber, target, text, f, user) ==
    LET run == [Fresh("smsReply", adminNumber, f, db) EXCEPT
                    !.target = target, !.content = text, !.isAdmin = TRUE]
    IN  IF ~isAdminNumber(adminNumber)
        THEN Decide(run, "unauthorized")
        ELSE IF user = NoUser
        THEN Decide(run, "reply")
        ELSE [run EXCEPT !.user = user, !.pc = "sessionSelect", !.branch = "reply"]

replyAnswer(run) ==
    LET reply == <<Msg("contact", "adminReply")>>
    IN  IF run.branch = "unauthorized"
        THEN Result("unauthorized", 1, FALSE, "", <<>>, NoInfo, NoSession, FALSE)
        ELSE Result(IF Threw(reply, run.fault) THEN "error" ELSE "replied", 1, FALSE, "",
                    Delivered(reply, run.fault), NoInfo, run.sid, run.isNew)

-----------------------------------------------------------------------------
(* POST /twilio/free-trial: the confirmation step of a free trial call.    *)

freeTrialConfirm(db, from, digits, f) ==
    LET run == Fresh("freeTrial", from, f, db)
    IN  IF digits = "1" /\ Throws(from)
        THEN \* hasUsedFreeTrial throws: the catch says "there was an error"
             Decide(run, "thrown")
        ELSE IF digits = "1"
        THEN trialBranch(db, run, "trialUsed", "freeTrial")
        ELSE IF digits = "2"
        THEN Decide(run, "declined")
        ELSE Decide(run, "invalidOption")

freeTrialAnswer(run) ==
    IF run.branch = "thrown"
    THEN Result("error", 1, FALSE, "", <<>>, NoInfo, NoSession, FALSE)
    ELSE IF run.branch = "trialUsed"
    THEN Result("trialUsed", 1, FALSE, "",
                sendSmsNotification("deniedTrialConfirmation", run.fault),
                NoInfo, NoSession, FALSE)
    ELSE IF run.branch = "freeTrial"
    THEN Result("freeTrial", 1, TRUE, "", <<>>, NoInfo, NoSession, FALSE)
    ELSE Result(run.branch, 1, FALSE, "", <<>>, NoInfo, NoSession, FALSE)

-----------------------------------------------------------------------------
(* POST /twilio/recording-status: answers 200 first, then stores the       *)
(* recording with the user's newest phone session and notifies the admin.  *)
(* userId is the query parameter ("" when the caller was unregistered).    *)

\* Variant: a failing download or upload ends the processing (the storage
\* error reaches the outer catch).
recordingStatusStorageAborts(db, from, userId, status, f, byPhone) ==
    LET run == [Fresh("recording", from, f, db) EXCEPT !.isAdmin = TRUE]
        byId == IF userId # "" /\ f # "planQuery" THEN UserById(userId) ELSE {}
        \* if (!user && callerNumber): no lookup by phone for an empty number
        user == IF byId # {} THEN CHOOSE r \in byId : TRUE
                ELSE IF from # <<>> THEN byPhone
                ELSE NoUser
    IN  IF status # "completed"
        THEN Decide(run, "ignored")
        ELSE IF f \in {"download", "upload"}
        THEN Decide(run, "error")
        ELSE IF user = NoUser
        THEN Decide(run, "recordingUnknown")
        ELSE [run EXCEPT !.user = user, !.content = "recording+blob",
                         !.pc = "phoneSelect", !.branch = "recorded"]

\* the run up to the lookup of the phone session: the download and the
\* upload (a failure leaves blobUrl empty), the lookup of the user by id
\* and by phone
recordingStatus(db, from, userId, status, f, byPhone) ==
    LET run == [Fresh("recording", from, f, db) EXCEPT !.isAdmin = TRUE]
        blobUrl == IF f \in {"download", "upload"} THEN "" ELSE "blob"
        byId == IF userId # "" /\ f # "planQuery" THEN UserById(userId) ELSE {}
        \* if (!user && callerNumber): no lookup by phone for an empty number
        user == IF byId # {} THEN CHOOSE r \in byId : TRUE
                ELSE IF from # <<>> THEN byPhone
                ELSE NoUser
    IN  IF status # "completed"
        THEN Decide(run, "ignored")
        ELSE IF user = NoUser
        THEN Decide(run, "recordingUnknown")
        ELSE [run EXCEPT !.user = user,
                         !.content = IF blobUrl # "" THEN "recording+blob" ELSE "recording",
                         !.pc = "phoneSelect", !.branch = "recorded"]

\* 'SELECT * FROM "HelpSession" WHERE "userId" = $1 AND type = 'phone'
\*  ORDER BY "createdAt" DESC LIMIT 1'
latestPhoneSession(db, userId) ==
    LET phone == {i \in DOMAIN db.sessions :
                    db.sessions[i].userId = userId /\ db.sessions[i].type = "phone"}
        newest == {i \in phone : \A j \in phone :
                    db.sessions[j].createdAt <= db.sessions[i].createdAt}
    IN  IF newest = {} THEN {NoSession} ELSE newest

recordingAnswer(run) ==
    LET done(path, out, sid) == Result(path, 1, FALSE, "", out, NoInfo, sid, FALSE)
    IN  IF run.branch = "recordingUnknown"
        THEN done("recordingUnknown", Delivered(<<Msg("admin", "recordingUnknown")>>, run.fault),
                  NoSession)
        ELSE IF run.branch = "recorded"
        THEN done("recorded", Delivered(<<Msg("admin", "recording")>>, run.fault), run.sid)
        ELSE done(run.branch, <<>>, NoSession)

-----------------------------------------------------------------------------
(* The awaited calls of a run, one step each.  A step gives the tables it  *)
(* leaves and the run as it goes on.                                       *)

Stepped(db, run) == [db |-> db, run |-> run]

\* the run holds a session, found or created: the voice handler dials, the
\* SMS handlers store the message
withSession(run) ==
    IF run.kind = "voice" THEN Goto(run, "respond") ELSE Goto(run, "messageInsert")

\* the run found no session it can use
withoutSession(run) ==
    IF run.kind \in {"voice", "sms"} /\ run.info.subscriptionType = "pay-as-you-go"
    THEN Goto(run, "recentSelect")
    ELSE Goto(run, "sessionInsert")

\* the open-session lookup answered found; a failing query is caught: the
\* voice handler goes on without a session, the SMS handlers leave their
\* try block
sessionSelect(db, run, found) ==
    IF run.fault = "sessionSelect"
    THEN IF run.kind = "voice" THEN withoutSession(run) ELSE Goto(run, "respond")
    ELSE IF found # NoSession
    THEN IF run.kind # "voice" /\ db.sessions[found].type # "sms"
         THEN Goto([run EXCEPT !.sid = found, !.isNew = FALSE], "typeUpdate")
         ELSE withSession([run EXCEPT !.sid = found, !.isNew = FALSE])
    ELSE withoutSession(run)

\* the UPDATE that switches the session to SMS
typeUpdate(db, run, t) ==
    IF run.fault = "typeUpdate"
    THEN Stepped(db, Goto(run, "respond"))
    ELSE Stepped(updateSessionType(db, run.sid, t), Wrote(Goto(run, "messageInsert"), "typeUpdate"))

\* the 24 hour lookup of a pay-as-you-go user; a failing query throws into
\* the catch around it
recentSelect(db, run, t) ==
    IF run.fault = "recentSelect"
    THEN Goto(run, "respond")
    ELSE IF hasRecentSession(db, run.user.id, t)
    THEN Decide(run, "throttled")
    ELSE Goto(run, "sessionInsert")

\* createHelpSession up to its INSERT; a failing INSERT makes it return null
\* and the handler goes on without a session
sessionInsert(db, run, t) ==
    LET callType == IF run.kind = "voice" THEN "phone" ELSE "sms"
        row == helpSessionRow(db, run.user.id, callType, run.content, t, run.fault)
        db1 == insertHelpSession(db, row, run.fault)
    IN  IF Len(db1.sessions) = Len(db.sessions)
        THEN Stepped(db, Goto(run, "respond"))
        ELSE Stepped(db1, Wrote([run EXCEPT !.sid = Len(db1.sessions),
                                           !.isNew = TRUE,
                                           !.pc = "usageSelect"], "sessionInsert"))

\* reportStripeUsage: its queries
usageSelect(db, run, t) ==
    IF reportStripeUsage(db, run.user.id, t, run.fault)
    THEN Goto(run, "meterCall")
    ELSE withSession(run)

\* reportStripeUsage: the meter event; a failing call ends the function
meterCall(db, run) ==
    IF run.fault = "meterCall"
    THEN Stepped(db, withSession(run))
    ELSE Stepped([db EXCEPT !.meter = Append(@, meterEvent(run.user.id))],
                 Wrote(Goto(run, "usageInsert"), "meterCall"))

\* reportStripeUsage: the INSERT into StripeUsage, a failure is caught
usageInsert(db, run) ==
    LET rows == insertUsage(db.usage, usageRow(run.user.id, run.sid), run.fault)
    IN  Stepped([db EXCEPT !.usage = rows],
                IF rows = db.usage THEN withSession(run)
                ELSE Wrote(withSession(run), "usageInsert"))

\* createMessage: the INSERT; a failure makes it return false
messageInsert(db, run) ==
    IF run.fault = "messageInsert"
    THEN Stepped(db, Goto(run, "respond"))
    ELSE Stepped([db EXCEPT !.messages =
                        Append(@, messageRow(run.sid, run.content, run.isAdmin))],
                 Wrote(Goto(run, "messageUpdate"), "messageInsert"))

\* createMessage: the UPDATE of the session
messageUpdate(db, run, t) ==
    IF run.fault = "messageUpdate"
    THEN Stepped(db, Goto(run, "respond"))
    ELSE Stepped(updateLastMessage(db, run.sid, run.content, t),
                 Wrote(Goto(run, "respond"), "messageUpdate"))

\* recordFreeTrial
trialInsert(db, run) ==
    LET db1 == recordFreeTrial(db, run.from, run.fault)
    IN  Stepped(db1, IF db1 = db THEN Goto(run, "respond")
                     ELSE Wrote(Goto(run, "respond"), "trialInsert"))

\* the lookup of the user's newest phone session by the recording handler
phoneSelect(db, run, sid) ==
    IF run.fault = "sessionSelect" \/ sid = NoSession
    THEN Decide(run, "noPhoneSession")
    ELSE Goto([run EXCEPT !.sid = sid], "messageInsert")

\* the messages and the response of a run
answer(run) ==
    IF run.kind = "voice" THEN voiceAnswer(run)
    ELSE IF run.kind = "sms" THEN smsAnswer(run)
    ELSE IF run.kind = "smsReply" THEN replyAnswer(run)
    ELSE IF run.kind = "freeTrial" THEN freeTrialAnswer(run)
    ELSE recordingAnswer(run)

-----------------------------------------------------------------------------
(* The endpoints that make no awaited table call.                          *)

\* POST /twilio/voice without digits (the menu), with "1" (account lookup)
\* or with any other digit but "2": one response, nothing is written
voiceMenu(db, from, digits, t, f, user) ==
    LET subscriptionInfo ==
            getUserSubscriptionInfo(db, user.id, t, f = "planQuery", f = "countQuery")
    IN  IF digits = ""
        THEN Result("menu", 1, FALSE, "", <<>>, NoInfo, NoSession, FALSE)
        ELSE IF digits # "1"
        THEN Result("invalidOption", 1, FALSE, "", <<>>, NoInfo, NoSession, FALSE)
        ELSE IF user = NoUser
        THEN Result("noAccount", 1, FALSE, "", <<>>, NoInfo, NoSession, FALSE)
        ELSE IF /\ subscriptionInfo.subscriptionType = "free"
                /\ subscriptionInfo.freeSessionsRemaining <= 0
        THEN Result("accountLimit", 1, FALSE, "", <<>>, subscriptionInfo, NoSession, FALSE)
        ELSE Result("accountInfo", 1, FALSE, "", <<>>, subscriptionInfo, NoSession, FALSE)

\* POST /twilio/no-answer: outcome is "machine", "completed" or "missed";
\* the follow-up to the caller is sent when the request has a caller number
\* (req.body.From || ""), the admin's alert always; neither is awaited
noAnswer(originalCallerNumber, outcome, f) ==
    LET followUp == IF originalCallerNumber # <<>>
                    THEN <<Msg("contact", "followUp"), Msg("admin", "missedCall")>>
                    ELSE <<Msg("admin", "missedCall")>>
        sent == SelectSeq(followUp, LAMBDA m : ~Rejected(m, f))
    IN  IF outcome = "completed"
        THEN Result("thanks", 1, FALSE, "", <<>>, NoInfo, NoSession, FALSE)
        ELSE Result(outcome, 1, FALSE, "", sent, NoInfo, NoSession, FALSE)

\* POST /twilio/whisper: the announcement played to the representative
whisper(type) == Result("whisper", 1, FALSE, type, <<>>, NoInfo, NoSession, FALSE)

\* POST /twilio/call-status: logs and answers 200
callStatus == Result("logged", 1, FALSE, "", <<>>, NoInfo, NoSession, FALSE)

\* POST /twilio/sms/respond: the external system sends a message to a user.
\* key.chars is the userId parameter as text, key.id the row id it names
\* ("" when it is a phone number); complete: all parameters are present.
ValidNumber(chars) == \A i \in DOMAIN chars : chars[i] \in DigitChars \cup {"+"}

smsRespond(complete, key, f, user) ==
    LET status(path) == Result(path, 1, FALSE, "", <<>>, NoInfo, NoSession, FALSE)
        byId == IF f = "planQuery" THEN {} ELSE UserById(key.id)
        phoneNumber == IF user # NoUser THEN key.chars
                       ELSE (CHOOSE r \in byId : TRUE).phone
    IN  IF ~complete THEN status("badRequest")
        ELSE IF user = NoUser /\ f = "planQuery" THEN status("error")
        ELSE IF user = NoUser /\ byId = {} THEN status("notFound")
        ELSE IF phoneNumber = <<>> THEN status("badRequest")
        ELSE IF f = "sendContact" \/ ~ValidNumber(phoneNumber) THEN status("error")
        ELSE Result("sent", 1, FALSE, "", <<Msg("contact", "apiMessage")>>,
                    NoInfo, NoSession, FALSE)
-----------------------------------------------------------------------------
(* State machine.                                                          *)

DB == [sessions |-> sessions, messages |-> messages, usage |-> usage,
       trials |-> trials, meter |-> meter]

\* A session completed before the run started.
Past(userId, type, priority, at) ==
    [userId |-> userId, type |-> type, status |-> "completed", completed |-> TRUE,
     priority |-> priority, createdAt |-> at, updatedAt |-> at + 1, lastMessage |-> "help"]

\* The HelpSession tables a run may start from.
NoSessions == <<>>

\* the free and the pay-as-you-go user with three completed sessions of
\* this month each
Exhausted ==
    << Past("uFree", "sms", "low", StartTime - 200),
       Past("uFree", "phone", "low", StartTime - 150),
       Past("uFree", "sms", "low", StartTime - 100),
       Past("uPayg", "sms", "medium", StartTime - 190),
       Past("uPayg", "phone", "medium", StartTime - 140),
       Past("uPayg", "sms", "medium", StartTime - 90) >>

\* the free user with two completed sessions of this month and one of the
\* month before
LastMonth ==
    << Past("uFree", "sms", "low", MonthStart(StartTime) - 10),
       Past("uFree", "phone", "low", StartTime - 150),
       Past("uFree", "sms", "low", StartTime - 100) >>

\* the pay-as-you-go user after a fourth, billed session of this month,
\* created just outside the throttle window and completed
Billed ==
    Append(Exhausted, Past("uPayg", "sms", "medium", StartTime - (ThrottleHours + 1)))

BilledUsage ==
    << [userId |-> "uPayg", stripeUsageId |-> "mtr_P", stripeCustomerId |-> "cus_P",
        sessionId |-> Len(Billed), status |-> "pending"] >>

\* the free user with a session completed in the last hour of the month
\* before, one completed in the first hour of this month and an open one,
\* next to a completed session of the pay-as-you-go user
Mixed ==
    << Past("uFree", "sms", "low", MonthStart(StartTime) - 1),
       Past("uFree", "phone", "low", MonthStart(StartTime)),
       [userId |-> "uFree", type |-> "sms", status |-> "ongoing", completed |-> FALSE,
        priority |-> "low", createdAt |-> StartTime - 5, updatedAt |-> StartTime - 5,
        lastMessage |-> "help"],
       Past("uPayg", "sms", "medium", StartTime - 50) >>

\* the subscriber with four completed sessions of this month
Subscribed ==
    << Past("uSub", "sms", "high", StartTime - 210),
       Past("uSub", "phone", "high", StartTime - 160),
       Past("uSub", "sms", "high", StartTime - 110),
       Past("uSub", "phone", "high", StartTime - 60) >>

\* the subscriber with an open session that began as a call
OpenPhone ==
    << [userId |-> "uSub", type |-> "phone", status |-> "ongoing", completed |-> FALSE,
        priority |-> "high", createdAt |-> StartTime - 30, updatedAt |-> StartTime - 30,
        lastMessage |-> NULL] >>

\* a FreeTrial row left from the time before the free user registered
StaleTrial == << [phone |-> cleanPhoneNumber(FreeContact)] >>

Run(contact, table, usageRows, meterEvents, trialRows) ==
    [focus |-> contact, sessions |-> table, usage |-> usageRows, meter |-> meterEvents,
     trials |-> trialRows]

\* the contact a run follows and the tables it starts from
InitialRuns ==
    { Run(FreeContact, NoSessions, <<>>, <<>>, <<>>),
      Run(FreeContact, Exhausted, <<>>, <<>>, <<>>),
      Run(FreeContact, LastMonth, <<>>, <<>>, <<>>),
      Run(FreeContact, LastMonth, <<>>, <<>>, StaleTrial),
      Run(PaygContact, NoSessions, <<>>, <<>>, <<>>),
      Run(PaygContact, Exhausted, <<>>, <<>>, <<>>),
      Run(PaygContact, Billed, BilledUsage, <<"cus_P">>, <<>>),
      Run(SubContact, NoSessions, <<>>, <<>>, <<>>),
      Run(SubContact, OpenPhone, <<>>, <<>>, <<>>),
      Run(SubContact, Subscribed, <<>>, <<>>, <<>>),
      Run(NewContact, NoSessions, <<>>, <<>>, <<>>) }


\* The handler runs of a run of the system; each takes one request.
Handlers == 1..MaxHandlers

\* no handler is between its request and its response
Quiet == \A h \in Handlers : inflight[h].pc \in {"idle", "done"}

\* another handler or the external system has stepped: a run in flight is
\* no longer alone
Disturbed(run) ==
    IF run.pc \in {"idle", "done"}
    THEN run
    ELSE [run EXCEPT !.alone = FALSE, !.before = NoTables]

Event(kind, from, f, r) ==
    [kind |-> kind, from |-> from, fault |-> f, path |-> r.path,
     responses |-> r.responses, dialed |-> r.dialed, whisper |-> r.whisper,
     outbox |-> r.outbox, info |-> r.info, sid |-> r.sid, isNew |-> r.isNew,
     writes |-> <<>>, alone |-> TRUE, before |-> NoTables]

\* the event of a handler run that has sent its response
Answered(run) ==
    [Event(run.kind, run.from, run.fault, answer(run)) EXCEPT
        !.writes = run.writes, !.alone = run.alone, !.before = run.before]

\* a handler that has answered its request
Done(e) == [pc |-> "done", event |-> e]

\* the state before the first request of a run that starts from one of runs
InitFrom(runs) ==
    /\ now = StartTime
    /\ \E run \in runs :
           /\ focus = run.focus
           /\ sessions = run.sessions
           /\ usage = run.usage
           /\ meter = run.meter
           /\ trials = run.trials
    /\ messages = <<>>
    /\ inflight = [h \in Handlers |-> Idle]
    /\ last = Event("init", <<>>, "none",
                    Result("", 0, FALSE, "", <<>>, NoInfo, NoSession, FALSE))

Init == InitFrom(InitialRuns) /\ env = "reliable"

InitFaulty == InitFrom(InitialRuns) /\ env = "faulty"

\* the tables after a step
Store(db) ==
    /\ sessions' = db.sessions
    /\ messages' = db.messages
    /\ usage' = db.usage
    /\ trials' = db.trials
    /\ meter' = db.meter

\* handler h takes a request and runs to its first awaited table call; the
\* handlers take the requests of a run in their order
Arrive(h, run) ==
    /\ inflight[h] = Idle
    /\ \A k \in 1..(h - 1) : inflight[k] # Idle
    /\ inflight' = [k \in Handlers |-> IF k = h THEN run ELSE Disturbed(inflight[k])]
    /\ env' = IF run.fault = "none" THEN env ELSE "reliable"
    /\ UNCHANGED <<now, sessions, messages, usage, trials, meter, focus, last>>

\* handler h has made a query and goes on as run
Look(h, run) ==
    /\ inflight' = [k \in Handlers |-> IF k = h THEN run ELSE Disturbed(inflight[k])]
    /\ UNCHANGED <<now, sessions, messages, usage, trials, meter, env, focus, last>>

\* handler h has made a statement that leaves the tables x.db
Take(h, x) ==
    /\ Store(x.db)
    /\ inflight' = [k \in Handlers |-> IF k = h THEN x.run ELSE Disturbed(inflight[k])]
    /\ UNCHANGED <<now, env, focus, last>>

\* handler h has sent its messages and its response
Finish(h, e) ==
    /\ last' = e
    /\ inflight' = [k \in Handlers |-> IF k = h THEN Done(e) ELSE Disturbed(inflight[k])]
    /\ UNCHANGED <<now, sessions, messages, usage, trials, meter, env, focus>>

\* The From values of the requests of a contact: the number as the provider
\* sends it, the From field sent twice, and for the unregistered contact the
\* number in its national spelling.
NationalContact == <<"9", "0", "9">>

Senders(contact) ==
    {contact, RepeatedFrom} \cup (IF contact = NewContact THEN {NationalContact} ELSE {})

VoicePress2(h) ==
    \E from \in Senders(focus), f \in Faults(env, VoiceSites) :
        \E user \in findUserByPhone(from, f) :
            Arrive(h, voicePress2(DB, from, now, f, user))

SmsInbound(h) ==
    \E from \in Senders(focus), body \in Bodies, f \in Faults(env, SmsSites) :
        \E user \in findUserByPhone(from, f) :
            Arrive(h, smsInbound(DB, from, body, now, f, user))

SmsReply(h) ==
    \E adminNumber \in {ADMIN_PHONE, Stranger}, target \in {focus}, f \in Faults(env, ReplySites) :
        \E user \in findUserByPhone(target, f) :
            Arrive(h, smsReply(DB, adminNumber, target, AdminReplyText, f, user))

FreeTrialRequests ==
    {[from |-> focus, digits |-> d] : d \in {"1", "2", "9"}}
        \cup {[from |-> from, digits |-> "1"] : from \in Senders(focus)}

FreeTrialConfirm(h) ==
    \E q \in FreeTrialRequests :
        \E f \in Faults(env, IF q.digits = "1" /\ ~Throws(q.from) THEN TrialSites ELSE {}) :
            Arrive(h, freeTrialConfirm(DB, q.from, q.digits, f))

RecordingStatus(h) ==
    \E from \in {focus}, status \in {"completed", "in-progress"} :
        \E f \in Faults(env, IF status = "completed" THEN RecordingSites ELSE {}) :
        \E byPhone \in findUserByPhone(from, f) :
            \E userId \in {"", byPhone.id} :
                Arrive(h, recordingStatus(DB, from, userId, status, f, byPhone))

SessionSelect(h) ==
    /\ inflight[h].pc = "sessionSelect"
    /\ \E found \in openSessionLookup(DB, inflight[h].user.id) :
           Look(h, sessionSelect(DB, inflight[h], found))

TypeUpdate(h) ==
    /\ inflight[h].pc = "typeUpdate"
    /\ Take(h, typeUpdate(DB, inflight[h], now))

RecentSelect(h) ==
    /\ inflight[h].pc = "recentSelect"
    /\ Look(h, recentSelect(DB, inflight[h], now))

SessionInsert(h) ==
    /\ inflight[h].pc = "sessionInsert"
    /\ Take(h, sessionInsert(DB, inflight[h], now))

UsageSelect(h) ==
    /\ inflight[h].pc = "usageSelect"
    /\ Look(h, usageSelect(DB, inflight[h], now))

MeterCall(h) ==
    /\ inflight[h].pc = "meterCall"
    /\ Take(h, meterCall(DB, inflight[h]))

UsageInsert(h) ==
    /\ inflight[h].pc = "usageInsert"
    /\ Take(h, usageInsert(DB, inflight[h]))

MessageInsert(h) ==
    /\ inflight[h].pc = "messageInsert"
    /\ Take(h, messageInsert(DB, inflight[h]))

MessageUpdate(h) ==
    /\ inflight[h].pc = "messageUpdate"
    /\ Take(h, messageUpdate(DB, inflight[h], now))

TrialInsert(h) ==
    /\ inflight[h].pc = "trialInsert"
    /\ Take(h, trialInsert(DB, inflight[h]))

PhoneSelect(h) ==
    /\ inflight[h].pc = "phoneSelect"
    /\ \E sid \in latestPhoneSession(DB, inflight[h].user.id) :
           Look(h, phoneSelect(DB, inflight[h], sid))

Respond(h) ==
    /\ inflight[h].pc = "respond"
    /\ Finish(h, Answered(inflight[h]))

\* an endpoint that makes no awaited table call answers in one step
Answer(kind, from, f, r) ==
    /\ last' = Event(kind, from, f, r)
    /\ env' = IF f = "none" THEN env ELSE "reliable"
    /\ inflight' = [k \in Handlers |-> Disturbed(inflight[k])]
    /\ UNCHANGED <<now, sessions, messages, usage, trials, meter, focus>>

VoiceMenu ==
    \E from \in {focus}, digits \in {"", "1", "9"} :
        \E f \in Faults(env, IF digits = "1" THEN MenuSites ELSE {}) :
        \E user \in findUserByPhone(from, f) :
            Answer("voiceMenu", from, f, voiceMenu(DB, from, digits, now, f, user))

\* the caller id of a request may be withheld: req.body.From || "" is empty
WithheldContact == <<>>

NoAnswer ==
    \E from \in {focus, WithheldContact}, outcome \in {"machine", "completed", "missed"} :
        \E f \in Faults(env, IF outcome = "completed" THEN {} ELSE NoAnswerSites) :
        Answer("noAnswer", from, f, noAnswer(from, outcome, f))

Whisper ==
    \E type \in {"customer", "freetrial", "returning", "unknown"} :
        Answer("whisper", <<>>, "none", whisper(type))

CallStatus ==
    Answer("callStatus", <<>>, "none", callStatus)

SmsRespondKeys ==
    { [chars |-> PaygContact, id |-> ""],
      [chars |-> <<"u", "P", "a", "y", "g">>, id |-> "uPayg"],
      [chars |-> <<"9", "0", "9">>, id |-> ""] }

SmsRespond ==
    \E complete \in BOOLEAN, key \in SmsRespondKeys :
        \E f \in Faults(env, IF complete THEN RespondSites ELSE {}) :
        \E user \in findUserByPhone(key.chars, f) :
            Answer("smsRespond", key.chars, f, smsRespond(complete, key, f, user))

\* The external process that closes a session.
Complete ==
    \E i \in DOMAIN sessions :
        /\ ~sessions[i].completed
        /\ sessions' = [sessions EXCEPT ![i].completed = TRUE, ![i].status = "completed"]
        /\ last' = Event("complete", <<>>, "none",
                         Result("", 0, FALSE, "", <<>>, NoInfo, i, FALSE))
        /\ inflight' = [k \in Handlers |-> Disturbed(inflight[k])]
        /\ UNCHANGED <<now, messages, usage, trials, meter, env, focus>>

\* The clock: one hour less and one hour more than the throttle window.  A
\* handler run lasts seconds: the clock, counted in hours, does not move
\* while a handler is in flight.
AdvanceSteps == {ThrottleHours - 1, ThrottleHours + 1}

Advance ==
    \E d \in AdvanceSteps :
        /\ Quiet
        /\ now + d - StartTime <= MaxElapsed
        /\ now' = now + d
        /\ last' = Event("advance", <<>>, "none",
                         Result("", 0, FALSE, "", <<>>, NoInfo, NoSession, FALSE))
        /\ UNCHANGED <<sessions, messages, usage, trials, meter, env, focus, inflight>>

\* a handler takes a request of an endpoint that writes to the tables
Request(h) ==
    \/ VoicePress2(h)
    \/ SmsInbound(h)
    \/ SmsReply(h)
    \/ FreeTrialConfirm(h)
    \/ RecordingStatus(h)

\* a handler in flight makes its next awaited call
Step(h) ==
    \/ SessionSelect(h)
    \/ TypeUpdate(h)
    \/ RecentSelect(h)
    \/ SessionInsert(h)
    \/ UsageSelect(h)
    \/ MeterCall(h)
    \/ UsageInsert(h)
    \/ MessageInsert(h)
    \/ MessageUpdate(h)
    \/ TrialInsert(h)
    \/ PhoneSelect(h)
    \/ Respond(h)

\* the endpoints that make no awaited table call
Stateless ==
    \/ VoiceMenu
    \/ NoAnswer
    \/ Whisper
    \/ CallStatus
    \/ SmsRespond

\* The handlers of the endpoints that write to the tables, overlapping in
\* any way, the completion and the clock.
Next ==
    \/ \E h \in Handlers : Request(h)
    \/ \E h \in Handlers : Step(h)
    \/ Complete
    \/ Advance

\* The same with the handlers one at a time: a request arrives, and a
\* session is completed, when no handler is in flight.
NextSerial ==
    \/ \E h \in Handlers : Quiet /\ Request(h)
    \/ \E h \in Handlers : Step(h)
    \/ Quiet /\ Complete
    \/ Advance

Spec == Init /\ [][Next]_vars

SpecSerial == Init /\ [][NextSerial]_vars

SpecSerialFaulty == InitFaulty /\ [][NextSerial]_vars

\* every endpoint of the server, the handlers one at a time
NextEndpoints ==
    \/ NextSerial
    \/ Quiet /\ Stateless

\* runs that reach every call of every endpoint
EndpointRuns ==
    { Run(PaygContact, Exhausted, <<>>, <<>>, <<>>),
      Run(SubContact, OpenPhone, <<>>, <<>>, <<>>),
      Run(NewContact, NoSessions, <<>>, <<>>, <<>>) }

InitEndpoints == InitFrom(EndpointRuns) /\ env = "reliable"

SpecEndpoints == InitEndpoints /\ [][NextEndpoints]_vars

-----------------------------------------------------------------------------
(* Sessions whose status was changed by the external system.  The handlers *)
(* read completed and status; the external system writes them, and the     *)
(* status of a session may leave the active set while completed is false.  *)

\* a session that is not completed, with the status the external system
\* gave it
Unfinished(userId, priority, status, at) ==
    [userId |-> userId, type |-> "sms", status |-> status, completed |-> FALSE,
     priority |-> priority, createdAt |-> at, updatedAt |-> at, lastMessage |-> "help"]

\* two sessions that are not completed (as overlapping handlers leave them):
\* the older one is ongoing, the newer one was set to a status outside the
\* active set
Stalled(userId, priority) ==
    << Unfinished(userId, priority, "ongoing", StartTime - 60),
       Unfinished(userId, priority, "resolved", StartTime - 40) >>

\* the other way round: the newer session is the ongoing one
Resumed(userId, priority) ==
    << Unfinished(userId, priority, "resolved", StartTime - 60),
       Unfinished(userId, priority, "ongoing", StartTime - 40) >>

StatusRuns ==
    { Run(FreeContact, Stalled("uFree", "low"), <<>>, <<>>, <<>>),
      Run(FreeContact, Resumed("uFree", "low"), <<>>, <<>>, <<>>),
      Run(PaygContact, Stalled("uPayg", "medium"), <<>>, <<>>, <<>>),
      Run(PaygContact, Resumed("uPayg", "medium"), <<>>, <<>>, <<>>),
      Run(SubContact, Stalled("uSub", "high"), <<>>, <<>>, <<>>),
      Run(SubContact, Resumed("uSub", "high"), <<>>, <<>>, <<>>),
      Run(PaygContact, Exhausted \o Stalled("uPayg", "medium"), <<>>, <<>>, <<>>) }

InitStatus == InitFrom(StatusRuns) /\ env = "reliable"

\* the endpoints that look for the open session, one at a time, with the
\* calls they reach from these tables, the completion and the clock
NextStatus ==
    \/ \E h \in Handlers : Quiet /\ VoicePress2(h)
    \/ \E h \in Handlers : Quiet /\ SmsInbound(h)
    \/ \E h \in Handlers : Quiet /\ SmsReply(h)
    \/ \E h \in Handlers : SessionSelect(h)
    \/ \E h \in Handlers : TypeUpdate(h)
    \/ \E h \in Handlers : RecentSelect(h)
    \/ \E h \in Handlers : SessionInsert(h)
    \/ \E h \in Handlers : UsageSelect(h)
    \/ \E h \in Handlers : MeterCall(h)
    \/ \E h \in Handlers : UsageInsert(h)
    \/ \E h \in Handlers : MessageInsert(h)
    \/ \E h \in Handlers : MessageUpdate(h)
    \/ \E h \in Handlers : Respond(h)
    \/ Quiet /\ Complete
    \/ Advance

SpecStatus == InitStatus /\ [][NextStatus]_vars

-----------------------------------------------------------------------------
(* Recorded calls: the calls of the contact and the recording-status       *)
(* callbacks that follow them, one at a time, with one call of a run       *)
(* failing.                                                                *)

NextRecording ==
    \/ \E h \in Handlers : Quiet /\ VoicePress2(h)
    \/ \E h \in Handlers : Quiet /\ RecordingStatus(h)
    \/ \E h \in Handlers : SessionSelect(h)
    \/ \E h \in Handlers : RecentSelect(h)
    \/ \E h \in Handlers : SessionInsert(h)
    \/ \E h \in Handlers : UsageSelect(h)
    \/ \E h \in Handlers : MeterCall(h)
    \/ \E h \in Handlers : UsageInsert(h)
    \/ \E h \in Handlers : TrialInsert(h)
    \/ \E h \in Handlers : PhoneSelect(h)
    \/ \E h \in Handlers : MessageInsert(h)
    \/ \E h \in Handlers : MessageUpdate(h)
    \/ \E h \in Handlers : Respond(h)
    \/ Quiet /\ Complete
    \/ Advance

SpecRecording == InitFaulty /\ [][NextRecording]_vars

-----------------------------------------------------------------------------
(* Senders whose number is not a stored phone: req.body.From || "" is the  *)
(* empty string when the caller id is missing or withheld, and a short     *)
(* number is a part of longer ones.                                        *)

PartialContact == <<"+", "1", "2", "0">>

SenderRuns ==
    { Run(contact, table, <<>>, <<>>, <<>>) :
        contact \in {WithheldContact, PartialContact, FreeContact},
        table \in {NoSessions, OpenPhone, Exhausted} }

InitSenders == InitFrom(SenderRuns) /\ env = "reliable"

\* the endpoints that resolve the sender of an inbound event, one at a time,
\* with the calls they reach from these tables
NextSenders ==
    \/ \E h \in Handlers : Quiet /\ VoicePress2(h)
    \/ \E h \in Handlers : Quiet /\ SmsInbound(h)
    \/ \E h \in Handlers : Quiet /\ RecordingStatus(h)
    \/ \E h \in Handlers : SessionSelect(h)
    \/ \E h \in Handlers : TypeUpdate(h)
    \/ \E h \in Handlers : RecentSelect(h)
    \/ \E h \in Handlers : SessionInsert(h)
    \/ \E h \in Handlers : UsageSelect(h)
    \/ \E h \in Handlers : MeterCall(h)
    \/ \E h \in Handlers : UsageInsert(h)
    \/ \E h \in Handlers : PhoneSelect(h)
    \/ \E h \in Handlers : MessageInsert(h)
    \/ \E h \in Handlers : MessageUpdate(h)
    \/ \E h \in Handlers : Respond(h)
    \/ Quiet /\ Complete
    \/ Advance

SpecSenders == InitSenders /\ [][NextSenders]_vars

-----------------------------------------------------------------------------
(* The entitlement resolver on its own: getUserSubscriptionInfo applied to *)
(* the contact's user over a range of tables, with either of its two       *)
(* lookups failing.                                                        *)

ResolverTables ==
    {SubSeq(Billed, 1, n) : n \in 0..Len(Billed)} \cup {LastMonth, OpenPhone, Mixed}

InitResolver ==
    /\ now = StartTime
    /\ focus \in Contacts
    /\ sessions \in ResolverTables
    /\ messages = <<>>
    /\ usage = <<>>
    /\ trials = <<>>
    /\ meter = <<>>
    /\ env = "faulty"
    /\ inflight = [h \in Handlers |-> Idle]
    /\ last = Event("init", <<>>, "none",
                    Result("", 0, FALSE, "", <<>>, NoInfo, NoSession, FALSE))

LookupFault(planFail, countFail) ==
    IF planFail /\ countFail THEN "planAndCount"
    ELSE IF planFail THEN "planQuery"
    ELSE IF countFail THEN "countQuery"
    ELSE "none"

Resolve ==
    \E planFail \in BOOLEAN, countFail \in BOOLEAN :
        \E user \in findUserByPhone(focus, "none") :
            /\ last' = Event("resolve", focus, LookupFault(planFail, countFail),
                             Result("resolve", 0, FALSE, "", <<>>,
                                    getUserSubscriptionInfo(DB, user.id, now, planFail, countFail),
                                    NoSession, FALSE))
            /\ UNCHANGED <<now, sessions, messages, usage, trials, meter, env, focus, inflight>>

NextResolver == Resolve \/ Complete \/ Advance

SpecResolver == InitResolver /\ [][NextResolver]_vars

-----------------------------------------------------------------------------
(* Phone normalization on its own: cleanPhoneNumber applied to raw phone    *)
(* strings, and applied again to its own result.                            *)

PhoneChars == {"+", "1", "5"}

RawPhones == UNION {[1..n -> PhoneChars] : n \in 0..MaxPhoneLen}

InitNormalize ==
    /\ now = StartTime
    /\ focus \in RawPhones
    /\ sessions = <<>>
    /\ messages = <<>>
    /\ usage = <<>>
    /\ trials = <<>>
    /\ meter = <<>>
    /\ env = "reliable"
    /\ inflight = [h \in Handlers |-> Idle]
    /\ last = [kind |-> "init", from |-> <<>>, once |-> <<>>, twice |-> <<>>]

Normalize ==
    /\ last' = [kind |-> "normalize", from |-> focus,
                once |-> cleanPhoneNumber(focus),
                twice |-> cleanPhoneNumber(cleanPhoneNumber(focus))]
    /\ UNCHANGED <<now, sessions, messages, usage, trials, meter, env, focus, inflight>>

NextNormalize == Normalize

SpecNormalize == InitNormalize /\ [][NextNormalize]_vars

-----------------------------------------------------------------------------
(* Properties.                                                             *)

\* the user a contact's number belongs to (NoUser for an unregistered one)
Caller(contact) == CHOOSE u \in findUserByPhone(contact, "none") : TRUE

\* the user's completed sessions of table rows created in the month of t
CompletedIn(rows, userId, t) ==
    Cardinality({i \in DOMAIN rows :
        /\ rows[i].userId = userId
        /\ rows[i].completed
        /\ rows[i].createdAt \div MonthHours = t \div MonthHours})

CompletedThisMonth(userId) == CompletedIn(sessions, userId, now)

OpenIn(rows, userId) ==
    {i \in DOMAIN rows : rows[i].userId = userId /\ ~rows[i].completed}

OpenSessions(userId) == OpenIn(sessions, userId)

Sent(e, to, tag) == \E i \in DOMAIN e.outbox : e.outbox[i] = Msg(to, tag)

\* the run of event e changed a table with the statement at site
Did(e, site) == \E i \in DOMAIN e.writes : e.writes[i] = site

Times(e, site) == Cardinality({i \in DOMAIN e.writes : e.writes[i] = site})

\* the event reached the representative: the call is dialed through, or the
\* message is forwarded to the admin
Forwarded(e) ==
    \/ e.dialed
    \/ \E tag \in {"forwardNew", "forwardOngoing", "forwardFreeTrial"} : Sent(e, "admin", tag)

ChannelOf(kind) == IF kind = "voice" THEN "phone" ELSE "sms"

HandlerKinds == {"voice", "sms", "smsReply", "freeTrial", "recording"}

\* The latest event is the answer of a handler of one of kinds that ran
\* from its request to its answer with no step of another handler or of
\* the external system in between, and nothing has happened since: the
\* tables are the ones the run left, last.before the ones it found, and
\* the clock is the time of the request.
Settled(kinds) ==
    /\ Quiet
    /\ last.kind \in kinds
    /\ last.alone

\* C1: a free-plan user with three or more completed sessions of this month
\* is denied on a call with digit 2 and on an inbound SMS: the event is not
\* forwarded, the admin gets the denial notice, and the HelpSession and
\* Message tables stay as they were.
C1_FreeQuotaDenied ==
    ( /\ Settled({"voice", "sms"})
      /\ last.from = FreeContact
      /\ CompletedIn(last.before.sessions, "uFree", now) >= 3 )
        => ( /\ last.path = "sessionLimit"
             /\ ~Forwarded(last)
             /\ Sent(last, "admin", "deniedSessionLimit")
             /\ sessions = last.before.sessions
             /\ messages = last.before.messages )

C1_Witness ==
    /\ Settled({"sms"})
    /\ last.from = FreeContact
    /\ last.path = "sessionLimit"
    /\ CompletedIn(last.before.sessions, "uFree", now) >= 3
    /\ Sent(last, "contact", "sessionLimit")
    /\ sessions = last.before.sessions

\* C2: with handlers running one at a time, no user ever has more than one
\* HelpSession with completed = false.
C2_OneOpenSessionPerUser ==
    \A userId \in UserIds : Cardinality(OpenSessions(userId)) <= 1

C2_Witness ==
    /\ Settled({"voice", "sms", "smsReply"})
    /\ last.sid # NoSession
    /\ ~last.isNew
    /\ OpenSessions(Caller(focus).id) = {last.sid}
    /\ sessions[last.sid].createdAt >= StartTime

\* the FreeTrial rows hold a row for the contact's normalized number
TrialRecorded(rows, contact) ==
    \E i \in DOMAIN rows : rows[i].phone = cleanPhoneNumber(contact)

\* C3: an unregistered contact whose number has a FreeTrial row is denied on
\* every later call with digit 2 and every later SMS: the event is not
\* forwarded to the representative.
C3_UsedTrialDenied ==
    ( /\ Settled({"voice", "sms"})
      /\ last.from = NewContact
      /\ TrialRecorded(last.before.trials, NewContact) )
        => ~Forwarded(last)

\* a HelpSession of the pay-as-you-go user in rows created within the 24
\* hours before t
PaygRecent(rows, t) == \E i \in DOMAIN rows :
    rows[i].userId = "uPayg" /\ t - rows[i].createdAt < ThrottleHours

\* C4: for the pay-as-you-go user without an open session, a call with digit
\* 2 or an inbound SMS creates a HelpSession exactly when no session of the
\* user was created in the last 24 hours; when creation is blocked nothing
\* is written to the HelpSession and Message tables.
C4_PaygThrottle ==
    ( /\ Settled({"voice", "sms"})
      /\ last.from = PaygContact
      /\ OpenIn(last.before.sessions, "uPayg") = {} )
        => ( /\ Did(last, "sessionInsert") <=> ~PaygRecent(last.before.sessions, now)
             /\ Did(last, "sessionInsert")
                    => ( /\ Len(sessions) = Len(last.before.sessions) + 1
                         /\ last.isNew
                         /\ last.sid = Len(sessions) )
             /\ PaygRecent(last.before.sessions, now)
                    => ( /\ sessions = last.before.sessions
                         /\ messages = last.before.messages ) )

C4_Witness ==
    /\ Settled({"voice", "sms"})
    /\ last.from = PaygContact
    /\ last.path = "throttled"
    /\ OpenIn(last.before.sessions, "uPayg") = {}
    /\ sessions = last.before.sessions
    /\ \E i \in DOMAIN sessions :
          sessions[i].userId = "uPayg" /\ now - sessions[i].createdAt = 23

\* C5: each new HelpSession of the pay-as-you-go user whose free sessions of
\* the month are used up adds exactly one usage report and exactly one
\* UsageRecord row, the row of that session.
C5_OneRecordPerBilledSession ==
    ( /\ Settled({"voice", "sms", "smsReply"})
      /\ focus = PaygContact
      /\ Did(last, "sessionInsert")
      /\ CompletedIn(last.before.sessions, "uPayg", now) >= 3 )
        => ( /\ Times(last, "meterCall") = 1
             /\ Len(meter) = Len(last.before.meter) + 1
             /\ Times(last, "usageInsert") = 1
             /\ Len(usage) = Len(last.before.usage) + 1
             /\ usage[Len(usage)].sessionId = last.sid )

\* C6: a usage report is sent and a UsageRecord row is written only by a
\* run that has created a HelpSession for the pay-as-you-go user with no
\* free session left: never for the subscriber or the free user, never
\* while free sessions remain, never by a run that continues an open
\* session.
C6_NoBillingOtherwise ==
    [][ (meter' # meter \/ usage' # usage)
        => \E h \in Handlers :
              /\ inflight[h].pc \in {"meterCall", "usageInsert"}
              /\ inflight'[h].pc # inflight[h].pc
              /\ inflight[h].user.id = "uPayg"
              /\ Did(inflight[h], "sessionInsert")
              /\ inflight[h].isNew
              /\ CompletedThisMonth("uPayg") >= 3 ]_vars

\* the first message of the pay-as-you-go user was billed, the second went
\* to the session of the first and was not
C6_Witness ==
    /\ focus = PaygContact
    /\ CompletedThisMonth("uPayg") >= 3
    /\ Settled({"sms"})
    /\ last.path = "forwarded"
    /\ ~last.isNew
    /\ last.writes = <<"messageInsert", "messageUpdate">>
    /\ Len(meter) = 1
    /\ Len(usage) = 1

\* C7: a call with digit 2 or an inbound SMS of a user whose open session
\* has the other channel's type reuses that session, sets its type to the
\* channel of the event, and adds no HelpSession row.
C7_ChannelSwitch ==
    ( /\ Settled({"voice", "sms"})
      /\ last.from = focus
      /\ \E i \in OpenIn(last.before.sessions, Caller(focus).id) :
            /\ last.before.sessions[i].status \in ActiveStatuses
            /\ last.before.sessions[i].type # ChannelOf(last.kind) )
        => ( /\ last.sid \in OpenIn(last.before.sessions, Caller(focus).id)
             /\ ~last.isNew
             /\ Len(sessions) = Len(last.before.sessions)
             /\ sessions[last.sid].type = ChannelOf(last.kind) )

\* C8: every webhook request gets exactly one response, on every path.
C8_OneResponse ==
    last.kind \in {"voice", "voiceMenu", "noAnswer", "freeTrial", "whisper", "sms",
                   "smsReply", "callStatus", "recording", "smsRespond"}
        => last.responses = 1

\* C9: when a handler fails with an exception, the answer is the technical
\* error response and the contact is not connected to the representative.
C9_ErrorNotForwarded ==
    (last.kind \in {"voice", "sms", "freeTrial"} /\ Throws(last.from))
        => (last.path \in {"error", "technicalError"} /\ ~Forwarded(last))

\* the plan the user's flags give
PlanOf(user) ==
    IF user.stripeSubscriptionId # "" THEN "subscription"
    ELSE IF user.stripeUsageId # "" THEN "pay-as-you-go"
    ELSE "free"

\* C10: when a lookup of the entitlement resolver fails, the result is never
\* unlimited and never a subscription or pay-as-you-go plan that the user's
\* flags do not give, and a failing plan query gives the free plan with
\* three sessions remaining.
C10_LookupFailureDegrades ==
    (last.kind = "resolve" /\ last.fault # "none")
        => ( /\ last.fault \in {"planQuery", "planAndCount"}
                    => ( /\ last.info.subscriptionType = "free"
                         /\ last.info.freeSessionsRemaining = 3
                         /\ ~last.info.hasUnlimitedSessions )
             /\ last.info.hasUnlimitedSessions => PlanOf(Caller(focus)) # "free"
             /\ last.info.subscriptionType # "free"
                    => last.info.subscriptionType = PlanOf(Caller(focus)) )

C10_Witness ==
    /\ last.kind = "resolve"
    /\ last.fault = "planQuery"
    /\ focus = SubContact
    /\ last.info.subscriptionType = "free"
    /\ last.info.freeSessionsRemaining = 3

\* C11: a user with a subscription id is never denied for quota, however
\* many completed sessions of this month the user has, on a call with digit
\* 2 and on an inbound SMS, whatever else runs at the same time.
C11_SubscriberNeverQuotaDenied ==
    (last.kind \in {"voice", "sms"} /\ last.from = SubContact)
        => ( /\ last.path # "sessionLimit"
             /\ ~Sent(last, "admin", "deniedSessionLimit")
             /\ ~Sent(last, "contact", "sessionLimit") )

C11_Witness ==
    /\ last.kind \in {"voice", "sms"}
    /\ last.from = SubContact
    /\ CompletedThisMonth("uSub") >= 4
    /\ last.info.subscriptionType = "subscription"
    /\ Forwarded(last)

\* C12: the FreeTrial table never holds two rows with the same normalized
\* phone number, and it only grows: every step keeps the rows it had,
\* unchanged and in place, also when handler runs overlap.
C12_TrialRowsUniqueGrowOnly ==
    [][ /\ Len(trials') >= Len(trials)
        /\ SubSeq(trials', 1, Len(trials)) = trials
        /\ \A i, j \in DOMAIN trials' :
              i # j => trials'[i].phone # trials'[j].phone ]_vars

\* two overlapping runs for two spellings of one number both found no row
\* and both went on to recordFreeTrial: the first INSERT added the row, the
\* second added none
C12_Witness ==
    \E h, k \in Handlers :
        /\ inflight[h].pc = "done" /\ inflight[k].pc = "done"
        /\ inflight[h].event.kind \in {"voice", "freeTrial", "sms"}
        /\ inflight[k].event.kind \in {"voice", "freeTrial", "sms"}
        /\ inflight[h].event.from # inflight[k].event.from
        /\ cleanPhoneNumber(inflight[h].event.from) = cleanPhoneNumber(inflight[k].event.from)
        /\ inflight[h].event.writes = <<"trialInsert">>
        /\ inflight[k].event.writes = <<>>
        /\ inflight[k].event.path \in {"dial", "freeTrial"}
        /\ inflight[k].event.whisper # "returning"
        /\ Len(trials) = 1

\* C13: on the voice channel pressing 2 in the main menu writes no FreeTrial
\* row, the row is written at the free-trial confirmation step only; on the
\* SMS channel the first message of an unregistered contact writes the row.
C13_VoiceTrialNeedsConfirmation ==
    /\ Settled({"voice"}) => ~Did(last, "trialInsert")
    /\ (Settled({"sms"}) /\ last.from = NewContact)
          => TrialRecorded(trials, NewContact)

\* C14: with no failing lookup the resolver derives the plan from the two
\* flags of the user's row alone: a subscription id gives the unlimited
\* subscription plan, also next to a usage id; otherwise a usage id gives
\* pay-as-you-go; otherwise the free plan with a limit of 3; a user id with
\* no User row gives the free plan with 3 sessions remaining.
C14_PlanFromFlags ==
    (last.kind = "resolve" /\ last.fault = "none")
        => LET user == Caller(focus)
               info == last.info
           IN  /\ user.stripeSubscriptionId # ""
                    => ( /\ info.subscriptionType = "subscription"
                         /\ info.hasUnlimitedSessions
                         /\ info.sessionLimit = -1 )
               /\ (user.stripeSubscriptionId = "" /\ user.stripeUsageId # "")
                    => info.subscriptionType = "pay-as-you-go"
               /\ (user.stripeSubscriptionId = "" /\ user.stripeUsageId = "")
                    => ( /\ info.subscriptionType = "free"
                         /\ info.sessionLimit = 3
                         /\ ~info.hasUnlimitedSessions )
               /\ user = NoUser
                    => ( /\ info.subscriptionType = "free"
                         /\ info.freeSessionsRemaining = 3 )

C14_Witness ==
    /\ last.kind = "resolve"
    /\ last.fault = "none"
    /\ focus = BothContact
    /\ Caller(focus).stripeSubscriptionId # ""
    /\ Caller(focus).stripeUsageId # ""
    /\ last.info.subscriptionType = "subscription"

\* C15: for the free and the pay-as-you-go user freeSessionsRemaining is
\* max(0, 3 - n), n being the number of the user's completed sessions
\* created in the month of the clock: open sessions, other users' sessions
\* and sessions of other months do not count, and the value is in 0..3.
C15_FreeSessionsRemaining ==
    ( /\ last.kind = "resolve"
      /\ last.fault = "none"
      /\ PlanOf(Caller(focus)) \in {"free", "pay-as-you-go"}
      /\ Caller(focus) # NoUser )
        => ( /\ last.info.freeSessionsRemaining
                    = Max(0, 3 - CompletedThisMonth(Caller(focus).id))
             /\ last.info.freeSessionsRemaining \in 0..3 )

\* the free user resolved over a table that holds a session of the month
\* before, an open session and another user's session
C15_Witness ==
    /\ last.kind = "resolve"
    /\ last.fault = "none"
    /\ focus = FreeContact
    /\ last.info.freeSessionsRemaining = 2
    /\ OpenSessions("uFree") # {}
    /\ \E i \in DOMAIN sessions :
          /\ sessions[i].userId = "uFree" /\ sessions[i].completed
          /\ sessions[i].createdAt < MonthStart(now)
    /\ \E i \in DOMAIN sessions : sessions[i].userId = "uPayg" /\ sessions[i].completed

\* C16: phone normalization is idempotent: normalizing a normalized number
\* gives the same number, for every raw phone string.
C16_NormalizeIdempotent ==
    last.kind = "normalize" => last.twice = last.once

\* C17: an inbound SMS is answered with the confirmation message to the
\* contact exactly when it created a new HelpSession: none for a message
\* that continues an open session, none when no session was found or
\* created.
C17_ConfirmationIffNewSession ==
    Settled({"sms"})
        => ( Sent(last, "contact", "confirmation")
                <=> (last.sid # NoSession /\ last.isNew /\ Did(last, "sessionInsert")) )

\* C18: an SMS reply whose sender is neither the admin number nor the
\* forward number is ignored: one empty acknowledgment, no outbound
\* message, and no statement that changes the HelpSession, Message or
\* StripeUsage table, whatever else runs at the same time.
C18_UnauthorizedReplyIgnored ==
    ( /\ last.kind = "smsReply"
      /\ last.from # ADMIN_PHONE
      /\ last.from # FORWARD_NUMBER )
        => ( /\ last.path = "unauthorized"
             /\ last.responses = 1
             /\ last.outbox = <<>>
             /\ last.writes = <<>>
             /\ last.sid = NoSession )

\* the ignored reply was addressed to a user with an open session
C18_Witness ==
    /\ Settled({"smsReply"})
    /\ last.from = Stranger
    /\ last.path = "unauthorized"
    /\ Caller(focus) # NoUser
    /\ OpenSessions(Caller(focus).id) # {}
    /\ messages = last.before.messages
    /\ sessions = last.before.sessions
    /\ usage = last.before.usage

\* C19: a call with digit 2 or an SMS of a contact that matches a User row
\* is handled on the registered path, with or without a FreeTrial row for
\* the number: the FreeTrial table is left alone, the outcome is none of the
\* trial outcomes and the entitlement is the one of the user's plan.
C19_RegisteredBeforeTrial ==
    ( /\ Settled({"voice", "sms"})
      /\ last.from = focus
      /\ Caller(focus) # NoUser )
        => ( /\ trials = last.before.trials
             /\ ~Did(last, "trialInsert")
             /\ last.whisper \notin {"freetrial", "returning"}
             /\ last.path \notin {"freeTrial", "trialUsed"}
             /\ \A tag \in {"trialUsed", "deniedTrialUsed", "forwardFreeTrial",
                              "trialConfirmation"} :
                    ~Sent(last, "contact", tag) /\ ~Sent(last, "admin", tag)
             /\ last.info
                    = getUserSubscriptionInfo(last.before, Caller(focus).id, now, FALSE, FALSE) )

\* a registered contact with a FreeTrial row for its number was forwarded
C19_Witness ==
    /\ Settled({"voice", "sms"})
    /\ last.from = focus
    /\ Caller(focus) # NoUser
    /\ TrialRecorded(last.before.trials, focus)
    /\ Forwarded(last)
    /\ last.info.subscriptionType = "free"

\* the events of the first and of the second request of a run whose
\* handlers have both answered
BothAnswered == \A h \in Handlers : inflight[h].pc = "done"

First == inflight[1].event

Second == inflight[2].event

\* the Message rows of rows that belong to session sid
MessagesOf(rows, sid) ==
    Cardinality({i \in DOMAIN rows : rows[i].helpSessionId = sid})

\* C20: when an inbound SMS of a registered user is delivered twice in
\* sequence and the first delivery landed in a session that is still open
\* when the second arrives, the second delivery lands in the same session
\* and adds no HelpSession row: both messages are stored in that session,
\* for every plan.
C20_RedeliverySameSession ==
    \A h \in Handlers : \A k \in Handlers :
        ( /\ k = h + 1
          /\ inflight[h].pc = "done" /\ inflight[k].pc = "done"
          /\ inflight[h].event.kind = "sms" /\ inflight[k].event.kind = "sms"
          /\ inflight[h].event.from = focus /\ inflight[k].event.from = focus
          /\ inflight[h].event.alone /\ inflight[k].event.alone
          /\ Caller(focus) # NoUser
          /\ inflight[h].event.sid # NoSession
          /\ ~inflight[k].event.before.sessions[inflight[h].event.sid].completed )
            => LET first == inflight[h].event
                   second == inflight[k].event
               IN  /\ second.sid = first.sid
                   /\ ~second.isNew
                   /\ ~Did(second, "sessionInsert")
                   /\ MessagesOf(second.before.messages, first.sid)
                          = MessagesOf(first.before.messages, first.sid) + 1
                   /\ Did(second, "messageInsert")
                   /\ (\A j \in Handlers : j > k => inflight[j].pc = "idle")
                          => MessagesOf(messages, first.sid)
                                = MessagesOf(second.before.messages, first.sid) + 1

\* the pay-as-you-go user's message arrived twice: the first delivery
\* created the session, the second was stored in it
C20_Witness ==
    /\ BothAnswered
    /\ First.kind = "sms" /\ Second.kind = "sms"
    /\ focus = PaygContact
    /\ Did(First, "sessionInsert")
    /\ Second.sid = First.sid
    /\ ~Second.isNew
    /\ Len(messages) = 2
    /\ messages[1].helpSessionId = First.sid
    /\ messages[2].helpSessionId = First.sid
    /\ messages[1].content = messages[2].content

\* the user's non-completed sessions created during the run
OpenedInRun(userId) ==
    {i \in OpenSessions(userId) : sessions[i].createdAt >= StartTime}

\* C21: a handler of an entitled user that read "no open session" inserts a
\* HelpSession when it goes on to createHelpSession, whatever other handlers
\* have inserted since its read: with two overlapping handlers the user
\* ends with two non-completed sessions.
C21_RaceTwoSessions ==
    [][ \A h \in Handlers :
          ( /\ inflight[h].pc = "sessionInsert"
            /\ inflight'[h].pc # "sessionInsert" )
          => ( /\ Len(sessions') = Len(sessions) + 1
               /\ inflight'[h].sid = Len(sessions')
               /\ inflight'[h].isNew
               /\ sessions'[Len(sessions')].userId = inflight[h].user.id
               /\ ~sessions'[Len(sessions')].completed ) ]_vars

\* both handlers of the pay-as-you-go user read "no open session" and "no
\* session in the last 24 hours" before either inserted, and have finished:
\* two open sessions created in the run
C21_Witness ==
    /\ focus = PaygContact
    /\ BothAnswered
    /\ First.kind \in {"voice", "sms"} /\ Second.kind \in {"voice", "sms"}
    /\ Did(First, "sessionInsert") /\ Did(Second, "sessionInsert")
    /\ ~First.alone /\ ~Second.alone
    /\ Cardinality(OpenedInRun("uPayg")) = 2
    /\ Cardinality(OpenSessions("uPayg")) = 2

\* C22: a call with digit 2 of the pay-as-you-go user who has no open
\* session and a session created within the last 24 hours is not dialed
\* through to the representative, also when the "wait 24 hours" message to
\* the caller or the notification of the admin is rejected.
C22_ThrottledCallerNotDialed ==
    ( /\ Settled({"voice"})
      /\ last.from = PaygContact
      /\ last.fault \in {"none", "sendContact", "sendAdmin"}
      /\ OpenIn(last.before.sessions, "uPayg") = {}
      /\ PaygRecent(last.before.sessions, now) )
        => ~last.dialed

\* the user's sessions in rows with completed = false and a status of the
\* active set
ActiveIn(rows, userId) ==
    {i \in OpenIn(rows, userId) : rows[i].status \in ActiveStatuses}

\* C23: when the user has a session with completed = false and an active
\* status, a call with digit 2, an inbound SMS or an admin reply that is
\* handled for the user goes to such a session and adds no HelpSession row,
\* also when the user's newest non-completed session has another status.
C23_ReuseAnyActiveSession ==
    ( /\ Settled({"voice", "sms", "smsReply"})
      /\ last.path \in {"dial", "forwarded", "replied"}
      /\ Caller(focus) # NoUser
      /\ ActiveIn(last.before.sessions, Caller(focus).id) # {} )
        => ( /\ Len(sessions) = Len(last.before.sessions)
             /\ ~last.isNew
             /\ last.sid \in ActiveIn(last.before.sessions, Caller(focus).id) )

\* C24: a run in which createMessage added a Message row leaves the row's
\* session with lastMessage equal to the row's content and updatedAt equal
\* to the time of the append, also when a call of the handler fails.
C24_MessageUpdatesLastMessage ==
    (Settled(HandlerKinds) /\ Did(last, "messageInsert"))
        => LET m == messages[Len(messages)]
           IN  /\ m.helpSessionId \in DOMAIN sessions
               /\ sessions[m.helpSessionId].lastMessage = m.content
               /\ sessions[m.helpSessionId].updatedAt = now

\* the user's sessions of type phone in rows
PhoneIn(rows, userId) ==
    {i \in DOMAIN rows : rows[i].userId = userId /\ rows[i].type = "phone"}

\* C25: when the download of a completed recording or its upload to object
\* storage fails, the recording-status handler of a user with a phone
\* session still answers the callback once, adds a Message row with the
\* original recording URL to a phone session of the user and sends the
\* recording notice to the admin.
C25_StorageFailureStillRecorded ==
    ( /\ Settled({"recording"})
      /\ last.fault \in {"download", "upload"}
      /\ Caller(focus) # NoUser
      /\ PhoneIn(last.before.sessions, Caller(focus).id) # {} )
        => ( /\ last.responses = 1
             /\ last.path = "recorded"
             /\ last.writes = <<"messageInsert", "messageUpdate">>
             /\ Len(messages) = Len(last.before.messages) + 1
             /\ messages[Len(messages)].content = "recording"
             /\ messages[Len(messages)].helpSessionId = last.sid
             /\ last.sid \in PhoneIn(last.before.sessions, Caller(focus).id)
             /\ Sent(last, "admin", "recording") )

\* the download failed and the recording was stored with its original URL
C25_Witness ==
    /\ Settled({"recording"})
    /\ last.fault = "download"
    /\ last.path = "recorded"
    /\ Sent(last, "admin", "recording")
    /\ Len(messages) = 1
    /\ messages[1].content = "recording"
    /\ messages[1].helpSessionId \in PhoneIn(sessions, Caller(focus).id)
    /\ sessions[messages[1].helpSessionId].lastMessage = "recording"

\* the event was forwarded to the representative as a free trial
GrantedTrial(e) ==
    \/ e.kind = "voice" /\ e.dialed /\ e.whisper = "freetrial"
    \/ e.kind = "freeTrial" /\ e.dialed
    \/ e.kind = "sms" /\ Sent(e, "admin", "forwardFreeTrial")

\* C26: the free trial of a number is granted once, also to overlapping
\* events: of two events of one unregistered number (two SMS, or an SMS
\* and a call) at most one is forwarded as a free trial.
C26_TrialGrantedOnce ==
    ( /\ BothAnswered
      /\ First.kind \in {"voice", "sms"} /\ Second.kind \in {"voice", "sms"}
      /\ "sms" \in {First.kind, Second.kind}
      /\ Caller(First.from) = NoUser
      /\ cleanPhoneNumber(First.from) = cleanPhoneNumber(Second.from) )
        => ~(GrantedTrial(First) /\ GrantedTrial(Second))

\* user passes the entitlement checks on the HelpSession rows at time t:
\* not a free-plan user with no session of the month left, not a
\* pay-as-you-go user with a session created in the last 24 hours
PassesChecks(rows, user, t) ==
    /\ user # NoUser
    /\ ~( /\ PlanOf(user) = "free"
          /\ CompletedIn(rows, user.id, t) >= FreeSessionLimit )
    /\ ~( /\ PlanOf(user) = "pay-as-you-go"
          /\ \E i \in DOMAIN rows :
                rows[i].userId = user.id /\ t - rows[i].createdAt < ThrottleHours )

\* C27: a run inserts a HelpSession row, and bills usage, only for a user
\* who passed the entitlement checks on the tables the run found, on every
\* endpoint, the admin's SMS reply to a user without an open session
\* included.
C27_CreationOnlyWhenEntitled ==
    ( /\ Settled(HandlerKinds)
      /\ \E site \in {"sessionInsert", "meterCall", "usageInsert"} : Did(last, site) )
        => ( /\ PassesChecks(last.before.sessions, Caller(focus), now)
             /\ sessions[last.sid].userId = Caller(focus).id )

\* the User rows whose normalized phone equals the sender's normalized number
SamePhone(contact) ==
    {UserRows[i] : i \in {j \in DOMAIN UserRows :
        cleanPhoneNumber(UserRows[j].phone) = cleanPhoneNumber(contact)}}

\* C28: a call with digit 2 or an SMS whose sender's normalized number is
\* the normalized phone of no User row (an empty number, a part of a stored
\* phone) is handled as unregistered: no entitlement of a user is resolved,
\* no session is used, and the HelpSession and Message tables stay as they
\* were.
C28_ResolvedOnlyByEqualNumber ==
    ( /\ Settled({"voice", "sms"})
      /\ last.from = focus
      /\ SamePhone(focus) = {} )
        => ( /\ last.info = NoInfo
             /\ last.sid = NoSession
             /\ sessions = last.before.sessions
             /\ messages = last.before.messages )

\* the run of event e stored a message with both statements of createMessage
Stored(e) == Did(e, "messageInsert") /\ Did(e, "messageUpdate")

\* C29: when two handlers have stored a message in the same session with
\* createMessage and both have finished, the session's lastMessage is the
\* content of the Message row inserted last, whatever the interleaving of
\* the two calls was.
C29_LastMessageIsLastInserted ==
    ( /\ BothAnswered
      /\ Stored(First) /\ Stored(Second)
      /\ First.sid = Second.sid )
        => sessions[messages[Len(messages)].helpSessionId].lastMessage
               = messages[Len(messages)].content

\* C30: an event of an unregistered contact whose number has a FreeTrial
\* row is never forwarded as a free trial, also when the lookup of the row
\* fails with a store error.
C30_FailedLookupGrantsNoTrial ==
    ( /\ Settled({"voice", "freeTrial", "sms"})
      /\ last.from = NewContact
      /\ TrialRecorded(last.before.trials, NewContact) )
        => ~GrantedTrial(last)

=============================================================================
